---------------------------- MODULE Spec2Model ----------------------------
(***************************************************************************)
(* A model of the tfl-status command line client (src/tfl-status/tfl.py). *)
(*                                                                         *)
(* One run of the program is a sequence of steps between its blocking     *)
(* HTTP calls: the program issues a request (Issue...), the transit API   *)
(* answers it (Deliver) and the program goes on from the answer, up to    *)
(* its next request or to its exit.  Strings are TLA+ strings, read one   *)
(* character at a time with SubSeq, so that trimming, lower-casing,       *)
(* prefix tests and the regular expression of normalize_line are         *)
(* computed as the code computes them.                                    *)
(*                                                                         *)
(* The stress harness (src/tfl-status/stress_test.py) is modelled by a     *)
(* specification of its own, SpecStress, over the harness's globals.       *)
(***************************************************************************)
EXTENDS Integers, Sequences, FiniteSets, TLC

VARIABLES
    args,       \* the parsed command line (argparse.Namespace)
    pc,         \* where the run stands
    calls,      \* every HTTP request issued so far, in order
    resp,       \* the answer to the last request, until the next one is issued
    best,       \* resolve_station: the first match of the search
    stations,   \* the stations resolve_station has returned so far, in order
    stdout,     \* what has been printed to standard output, in order
    stderr,     \* what has been printed to standard error, in order
    exitcode,   \* the exit status the process ends with once pc = "exited"
    input,      \* pure-function harness: the argument
    output,     \* pure-function harness: the successive results
    passed,     \* stress_test.py: the global passed
    failed,     \* stress_test.py: the global failed
    rate_limited, \* stress_test.py: the global rate_limited
    errors,     \* stress_test.py: the global list errors
    tests       \* stress_test.py: the test() calls made so far, each with its GETs

\* the state of the stress harness
stress == <<passed, failed, rate_limited, errors, tests>>

vars == <<args, pc, calls, resp, best, stations, stdout, stderr, exitcode,
          input, output, stress>>

(***************************************************************************)
(* Bounds of the model.                                                    *)
(***************************************************************************)
MaxSuffix   == 2    \* trailing pieces appended to a line name
MaxMatches  == 2    \* matches in a stop-search response
MaxChildren == 2    \* children in a stop-detail response
MaxLines    == 2    \* lines in a status response
MaxEntries  == 2    \* status entries in a status response, all lines together
MaxArrivals == 2    \* arrivals in an arrivals response
MaxJourneys == 2    \* journeys in a journey-planning response
MaxDays     == 2    \* days in a crowding-pattern response
MaxSeverity == 21   \* severities given to format_line on its own: 0..MaxSeverity
MaxSeconds  == 130  \* timeToStation given to format_arrival on its own: -MaxSeconds..MaxSeconds
MaxPct      == 105  \* percentages given to _busyness_label on its own, in hundredths

(***************************************************************************)
(* Strings.                                                                *)
(***************************************************************************)
Char(s, i) == SubSeq(s, i, i)

Min(S) == CHOOSE x \in S : \A y \in S : x <= y

Max(S) == CHOOSE x \in S : \A y \in S : x >= y

\* str.isspace for the characters of the model's alphabet
IsSpace(c) == c \in {" ", "\t", "\n"}

UpperLetters == "ABCDEFGHIJKLMNOPQRSTUVWXYZ"

LowerLetters == "abcdefghijklmnopqrstuvwxyz"

LowerChar(c) ==
    IF \E i \in 1..Len(UpperLetters) : Char(UpperLetters, i) = c
    THEN Char(LowerLetters, CHOOSE i \in 1..Len(UpperLetters) : Char(UpperLetters, i) = c)
    ELSE c

\* str.lower
RECURSIVE Lower(_)
Lower(s) == IF s = "" THEN "" ELSE LowerChar(Char(s, 1)) \o Lower(Tail(s))

\* str.strip
Strip(s) ==
    LET keep == {i \in 1..Len(s) : ~IsSpace(Char(s, i))}
    IN  IF keep = {} THEN "" ELSE SubSeq(s, Min(keep), Max(keep))

\* str.startswith
StartsWith(s, p) == Len(s) >= Len(p) /\ SubSeq(s, 1, Len(p)) = p

\* str.find(sub) + 1: the first position where sub occurs in s, 0 when nowhere
IndexOf(s, sub) ==
    LET at == {i \in 1..(Len(s) - Len(sub) + 1) : SubSeq(s, i, i + Len(sub) - 1) = sub}
    IN  IF at = {} THEN 0 ELSE Min(at)

\* str.split(sep)
RECURSIVE Split(_, _)
Split(s, sep) ==
    LET i == IndexOf(s, sep)
    IN  IF i = 0 THEN <<s>>
        ELSE <<SubSeq(s, 1, i - 1)>> \o Split(SubSeq(s, i + Len(sep), Len(s)), sep)

\* str.replace(old, "")
RECURSIVE Remove(_, _)
Remove(s, old) ==
    LET i == IndexOf(s, old)
    IN  IF i = 0 THEN s
        ELSE SubSeq(s, 1, i - 1) \o Remove(SubSeq(s, i + Len(old), Len(s)), old)

UpperChar(c) ==
    IF \E i \in 1..Len(LowerLetters) : Char(LowerLetters, i) = c
    THEN Char(UpperLetters, CHOOSE i \in 1..Len(LowerLetters) : Char(LowerLetters, i) = c)
    ELSE c

\* str.upper
RECURSIVE Upper(_)
Upper(s) == IF s = "" THEN "" ELSE UpperChar(Char(s, 1)) \o Upper(Tail(s))

\* the characters of the model in code point order
CodePointOrder == "\t\n &'(),-.0123456789:ABCDEFGHIJKLMNOPQRSTUVWXYZabcdefghijklmnopqrstuvwxyz"

\* a < b for two strings, as Python compares them
RECURSIVE StrLess(_, _)
StrLess(a, b) ==
    IF b = "" THEN FALSE
    ELSE IF a = "" THEN TRUE
    ELSE IF Char(a, 1) = Char(b, 1) THEN StrLess(Tail(a), Tail(b))
    ELSE IndexOf(CodePointOrder, Char(a, 1)) < IndexOf(CodePointOrder, Char(b, 1))

\* xs[:n]
Slice(xs, n) ==
    IF n >= 0 THEN SubSeq(xs, 1, IF n < Len(xs) THEN n ELSE Len(xs))
    ELSE SubSeq(xs, 1, IF Len(xs) + n > 0 THEN Len(xs) + n ELSE 0)

(***************************************************************************)
(* Line-name normalization.                                                *)
(***************************************************************************)
AliasKeys ==
    {"hammersmith and city", "hammersmith & city", "waterloo and city",
     "waterloo & city", "london overground", "elizabeth line"}

LINE_ALIASES(k) ==
    CASE k = "hammersmith and city" -> "hammersmith-city"
      [] k = "hammersmith & city"   -> "hammersmith-city"
      [] k = "waterloo and city"    -> "waterloo-city"
      [] k = "waterloo & city"      -> "waterloo-city"
      [] k = "london overground"    -> "london-overground"
      [] k = "elizabeth line"       -> "elizabeth-line"

\* LINE_ALIASES.get(name, name)
AliasGet(name) == IF name \in AliasKeys THEN LINE_ALIASES(name) ELSE name

\* the pattern \s+line$ matches s from position i on
MatchAt(s, i) ==
    \E k \in 1..(Len(s) - i - 3) :
        /\ \A j \in i..(i + k - 1) : IsSpace(Char(s, j))
        /\ SubSeq(s, i + k, Len(s)) = "line"

\* re.sub(r"\s+line$", "", s): the leftmost match is removed
ReSubLineSuffix(s) ==
    LET M == {i \in 1..Len(s) : MatchAt(s, i)}
    IN  IF M = {} THEN s ELSE SubSeq(s, 1, Min(M) - 1)

\* mutant: the alias table is not consulted again after the suffix is removed
normalize_line_NoRecheck(name) ==
    LET n == Lower(Strip(name))
    IN  IF n \in AliasKeys THEN LINE_ALIASES(n) ELSE ReSubLineSuffix(n)

\* mutant: the suffix is removed before the alias table is consulted
normalize_line_StripFirst(name) == AliasGet(ReSubLineSuffix(Lower(Strip(name))))

normalize_line(name) ==
    LET n == Lower(Strip(name))
    IN  IF n \in AliasKeys THEN LINE_ALIASES(n) ELSE AliasGet(ReSubLineSuffix(n))

(***************************************************************************)
(* Values exchanged with the transit API.  A JSON object is a record; a   *)
(* key the code reads with .get may be absent from it.                    *)
(***************************************************************************)
\* dict.get(key, default)
Get(r, key, default) == IF key \in DOMAIN r THEN r[key] ELSE default

\* the JSON object {}
EmptyObject == <<>>

SeqsUpTo(S, n) == UNION {[1..k -> S] : k \in 0..n}

Req(kind, arg) == [kind |-> kind, arg |-> arg]

NoResp == [status |-> -1]

\* what makes _get raise httpx.HTTPError: a transport error (written 0) or a
\* response whose status is not 2xx
FailureStatuses == {0, 300, 404}

StopIds == {"HUBBAN", "940GZZLUOXC"}

StopName(id) == IF id = "HUBBAN" THEN "Bank" ELSE "Oxford Circus Underground Station"

ChildIds == {"940GZZLUBNK", "940GZZLUMMT", "910GBANK"}

\* lat and lon of a match: both absent, lon absent, and the four ways of
\* being zero or not
CoordShapes ==
    {EmptyObject, [lat |-> 51]}
    \cup {[lat |-> a, lon |-> b] : a \in {0, 51}, b \in {0, 7}}

MatchRecs == {[id |-> i, name |-> StopName(i)] @@ c : i \in StopIds, c \in CoordShapes}

\* the matches after the first, which resolve_station never reads
LaterMatches ==
    {[id |-> "HUBBAN", name |-> StopName("HUBBAN"), lat |-> 51, lon |-> 7],
     [id |-> "940GZZLUOXC", name |-> StopName("940GZZLUOXC")]}

SearchBodies ==
    {EmptyObject, [matches |-> <<>>]}
    \cup {[matches |-> <<m>> \o ms] :
            m \in MatchRecs, ms \in SeqsUpTo(LaterMatches, MaxMatches - 1)}

StopBodies ==
    {EmptyObject} \cup {[children |-> cs] : cs \in SeqsUpTo({[id |-> c] : c \in ChildIds}, MaxChildren)}

(***************************************************************************)
(* Line status: the data, the severity table and the formatter.           *)
(***************************************************************************)
LineNames == <<"Victoria", "Northern", "Central", "Jubilee", "Piccadilly">>

\* severities an entry may carry: 6 and 10 are in the table SEVERITY, 14 is the
\* second "good" one, 12 is not in the table
Severities == {6, 10, 12, 14}

\* the description the API sends along with a severity
ApiDescription(sev) ==
    CASE sev = 6  -> "Severe Delays"
      [] sev = 10 -> "Good Service"
      [] sev = 12 -> "Exit Only"
      [] sev = 14 -> "Change of frequency"

\* a status entry; the code reads statusSeverity with .get, so it may be absent
StatusEntries ==
    {[statusSeverity |-> sv, statusSeverityDescription |-> ApiDescription(sv)] : sv \in Severities}
    \cup {[statusSeverityDescription |-> "Good Service"]}

\* the i-th line of a response, with at most b status entries, or with no
\* lineStatuses key at all
LineShapes(i, b) ==
    {[name |-> LineNames[i]]}
    \cup {[name |-> LineNames[i], lineStatuses |-> ss] : ss \in SeqsUpTo(StatusEntries, b)}

\* the lists of lines i, i+1, ... with at most b status entries in all
RECURSIVE LineLists(_, _)
LineLists(i, b) ==
    {<<>>} \cup
    IF i > MaxLines THEN {}
    ELSE UNION {{<<l>> \o rest :
                    rest \in LineLists(i + 1, b - Len(Get(l, "lineStatuses", <<>>)))} :
                l \in LineShapes(i, b)}

StatusBodies == LineLists(1, MaxEntries)

SeverityKeys == (0..11) \cup (14..20)

\* SEVERITY: severity -> (emoji, label); the emoji are written as colour names
SEVERITY(sev) ==
    CASE sev = 0  -> <<"(red)", "Special Service">>
      [] sev = 1  -> <<"(red)", "Closed">>
      [] sev = 2  -> <<"(red)", "Suspended">>
      [] sev = 3  -> <<"(red)", "Part Suspended">>
      [] sev = 4  -> <<"(red)", "Planned Closure">>
      [] sev = 5  -> <<"(red)", "Part Closure">>
      [] sev = 6  -> <<"(red)", "Severe Delays">>
      [] sev = 7  -> <<"(yellow)", "Reduced Service">>
      [] sev = 8  -> <<"(yellow)", "Bus Service">>
      [] sev = 9  -> <<"(yellow)", "Minor Delays">>
      [] sev = 10 -> <<"(green)", "Good Service">>
      [] sev = 11 -> <<"(red)", "Part Closed">>
      [] sev = 14 -> <<"(green)", "Good Service">>
      [] sev = 15 -> <<"(red)", "Service Closed">>
      [] sev = 16 -> <<"(red)", "Not Running">>
      [] sev = 17 -> <<"(yellow)", "Issues Reported">>
      [] sev = 18 -> <<"(yellow)", "No Step Free Access">>
      [] sev = 19 -> <<"(yellow)", "Change of Frequency">>
      [] sev = 20 -> <<"(red)", "Diverted">>

\* SEVERITY.get(sev, ("(white)", "Unknown"))
SeverityGet(sev) == IF sev \in SeverityKeys THEN SEVERITY(sev) ELSE <<"(white)", "Unknown">>

\* sep.join(parts)
RECURSIVE JoinWith(_, _)
JoinWith(parts, sep) ==
    IF parts = <<>> THEN ""
    ELSE IF Len(parts) = 1 THEN parts[1]
    ELSE parts[1] \o sep \o JoinWith(Tail(parts), sep)

\* str.replace("\n", " ")
RECURSIVE ReplaceNewlines(_)
ReplaceNewlines(s) ==
    IF s = "" THEN ""
    ELSE (IF Char(s, 1) = "\n" THEN " " ELSE Char(s, 1)) \o ReplaceNewlines(Tail(s))

\* mutant: the label of the severity table is printed, not the entry's description
RECURSIVE StatusParts_TableLabel(_, _)
StatusParts_TableLabel(name, ss) ==
    IF ss = <<>> THEN <<>>
    ELSE LET status == Head(ss)
             sev    == Get(status, "statusSeverity", 10)
             reason == Get(status, "reason", "")
         IN  <<SeverityGet(sev)[1] \o " " \o name \o ": " \o SeverityGet(sev)[2]>>
             \o (IF reason # "" THEN <<"   " \o ReplaceNewlines(Strip(reason))>> ELSE <<>>)
             \o StatusParts_TableLabel(name, Tail(ss))

\* the parts format_line collects for the status entries ss of the line called name
RECURSIVE StatusParts(_, _)
StatusParts(name, ss) ==
    IF ss = <<>> THEN <<>>
    ELSE LET status == Head(ss)
             sev    == Get(status, "statusSeverity", 10)
             emoji  == SeverityGet(sev)[1]
             desc   == Get(status, "statusSeverityDescription", "Unknown")
             reason == Get(status, "reason", "")
         IN  <<emoji \o " " \o name \o ": " \o desc>>
             \o (IF reason # "" THEN <<"   " \o ReplaceNewlines(Strip(reason))>> ELSE <<>>)
             \o StatusParts(name, Tail(ss))

format_line(line) ==
    LET parts == StatusParts(line.name, Get(line, "lineStatuses", <<>>))
    IN  IF parts # <<>> THEN JoinWith(parts, "\n") ELSE "(white) " \o line.name \o ": Unknown"

\* the key lambda of the status sorts raises IndexError: x.get("lineStatuses", [{}])[0]
\* of an empty list
SortKeyRaises(line) == Get(line, "lineStatuses", <<EmptyObject>>) = <<>>

\* lambda x: x.get("lineStatuses", [{}])[0].get("statusSeverity", 10)
SeverityKey(line) == Get(Head(Get(line, "lineStatuses", <<EmptyObject>>)), "statusSeverity", 10)

\* s with x put behind the last element whose key is not greater than key(x):
\* keyed[i] is <<key, element>>
InsertKeyed(keyed, x) ==
    LET after == {i \in 1..Len(keyed) : keyed[i][1] <= x[1]}
        n     == IF after = {} THEN 0 ELSE Max(after)
    IN  SubSeq(keyed, 1, n) \o <<x>> \o SubSeq(keyed, n + 1, Len(keyed))

\* sorted() on <<key, element>> pairs with integer keys: ascending, stable
RECURSIVE SortKeyed(_)
SortKeyed(keyed) ==
    IF keyed = <<>> THEN <<>>
    ELSE InsertKeyed(SortKeyed(SubSeq(keyed, 1, Len(keyed) - 1)), keyed[Len(keyed)])

\* mutant: descending instead of ascending
SortedBySeverity_Descending(lines) ==
    LET sorted == SortKeyed([i \in 1..Len(lines) |-> <<0 - SeverityKey(lines[i]), lines[i]>>])
    IN  [i \in 1..Len(lines) |-> sorted[i][2]]

\* sorted(lines, key=<severity of the first status entry>)
SortedBySeverity(lines) ==
    LET sorted == SortKeyed([i \in 1..Len(lines) |-> <<SeverityKey(lines[i]), lines[i]>>])
    IN  [i \in 1..Len(lines) |-> sorted[i][2]]

\* mutant: only the first status entry of a line is looked at
IsDisrupted_FirstOnly(line) ==
    /\ Get(line, "lineStatuses", <<>>) # <<>>
    /\ Get(Head(line.lineStatuses), "statusSeverity", 10) \notin {10, 14}

\* mutant: severity 14 counts as a disruption
IsDisrupted_Only10(line) ==
    \E i \in 1..Len(Get(line, "lineStatuses", <<>>)) :
        Get(line.lineStatuses[i], "statusSeverity", 10) # 10

\* any(s.get("statusSeverity", 10) not in (10, 14) for s in line.get("lineStatuses", []))
IsDisrupted(line) ==
    \E i \in 1..Len(Get(line, "lineStatuses", <<>>)) :
        Get(line.lineStatuses[i], "statusSeverity", 10) \notin {10, 14}

\* mutant: the disrupted lines are sorted before the output mode is looked at
Disrupted_Sorted(data) == SortedBySeverity(SelectSeq(data, IsDisrupted))

\* the list comprehension of cmd_disruptions
Disrupted(data) == SelectSeq(data, IsDisrupted)

(***************************************************************************)
(* Arrivals, journeys and crowding: the data and the formatters.          *)
(***************************************************************************)
ArrivalRecs ==
    {[lineName |-> l, timeToStation |-> t, platformName |-> "Westbound - Platform 1",
      destinationName |-> "Brixton Underground Station"] :
        l \in {"Victoria", "Hammersmith & City"}, t \in {0, 65}}

ArrivalBodies == SeqsUpTo(ArrivalRecs, MaxArrivals)

\* mutant: the seconds are rounded to the nearest minute
format_arrival_Rounded(arrival) ==
    LET mins      == (arrival.timeToStation + 30) \div 60
        platform  == Get(arrival, "platformName", "")
        dest      == Remove(Get(arrival, "destinationName", "Unknown"), " Underground Station")
        time_str  == IF mins = 0 THEN "due" ELSE ToString(mins) \o "min"
        split     == Split(platform, " - ")
        direction == IF Len(split) > 1 THEN split[1] ELSE ""
        platform_num == IF Len(split) > 1 THEN split[2] ELSE platform
    IN  IF direction # ""
        THEN "    " \o direction \o " -> " \o dest \o " - " \o time_str \o " (" \o platform_num \o ")"
        ELSE "    " \o dest \o " - " \o time_str \o " (" \o platform_num \o ")"

format_arrival(arrival) ==
    LET mins      == arrival.timeToStation \div 60
        platform  == Get(arrival, "platformName", "")
        dest      == Remove(Get(arrival, "destinationName", "Unknown"), " Underground Station")
        time_str  == IF mins = 0 THEN "due" ELSE ToString(mins) \o "min"
        split     == Split(platform, " - ")
        direction == IF Len(split) > 1 THEN split[1] ELSE ""
        platform_num == IF Len(split) > 1 THEN split[2] ELSE platform
    IN  IF direction # ""
        THEN "    " \o direction \o " -> " \o dest \o " - " \o time_str \o " (" \o platform_num \o ")"
        ELSE "    " \o dest \o " - " \o time_str \o " (" \o platform_num \o ")"

\* mutant: the arrivals are sorted by lineName only
ArrivalKeyLeq_LineOnly(x, y) ==
    LET xl == Get(x, "lineName", "")
        yl == Get(y, "lineName", "")
    IN  StrLess(xl, yl) \/ xl = yl

\* (lineName, timeToStation) of x is not greater than that of y
ArrivalKeyLeq(x, y) ==
    LET xl == Get(x, "lineName", "")
        yl == Get(y, "lineName", "")
    IN  \/ StrLess(xl, yl)
        \/ xl = yl /\ Get(x, "timeToStation", 0) <= Get(y, "timeToStation", 0)

InsertArrival(sorted, x) ==
    LET after == {i \in 1..Len(sorted) : ArrivalKeyLeq(sorted[i], x)}
        n     == IF after = {} THEN 0 ELSE Max(after)
    IN  SubSeq(sorted, 1, n) \o <<x>> \o SubSeq(sorted, n + 1, Len(sorted))

\* sorted(data, key=lambda x: (x.get("lineName", ""), x.get("timeToStation", 0)))
RECURSIVE SortArrivals(_)
SortArrivals(data) ==
    IF data = <<>> THEN <<>>
    ELSE InsertArrival(SortArrivals(SubSeq(data, 1, Len(data) - 1)), data[Len(data)])

\* itertools.groupby(xs, key=lineName): the runs of consecutive equal lineName
RECURSIVE GroupByLine(_)
GroupByLine(xs) ==
    IF xs = <<>> THEN <<>>
    ELSE LET name == Get(xs[1], "lineName", "")
             stop == {i \in 1..Len(xs) : Get(xs[i], "lineName", "") # name}
             n    == IF stop = {} THEN Len(xs) ELSE Min(stop) - 1
         IN  <<SubSeq(xs, 1, n)>> \o GroupByLine(SubSeq(xs, n + 1, Len(xs)))

\* what the loop of cmd_arrivals prints for the groups gs
RECURSIVE GroupLines(_, _)
GroupLines(gs, limit) ==
    IF gs = <<>> THEN <<>>
    ELSE LET shown == Slice(Head(gs), limit)
         IN  <<"  " \o Get(Head(gs)[1], "lineName", "") \o ":">>
             \o [i \in 1..Len(shown) |-> format_arrival(shown[i])]
             \o <<"">>
             \o GroupLines(Tail(gs), limit)

\* the arrivals kept by --line: the lower-cased lineName is one of the
\* normalized, lower-cased requested names
FilterByLine(data, line) ==
    LET requested   == Split(line, ",")
        filter_lines == {Lower(normalize_line(requested[i])) : i \in 1..Len(requested)}
        Keep(a)     == Lower(Get(a, "lineName", "")) \in filter_lines
    IN  SelectSeq(data, Keep)

LegRecs ==
    {[instruction |-> [summary |-> "Central line to Bank", detailed |-> "Central line towards Epping"],
      duration |-> 9],
     [duration |-> 4]}

JourneyRecs ==
    {[duration |-> 13, legs |-> <<>>],
     [duration |-> 25, legs |-> <<CHOOSE l \in LegRecs : "instruction" \in DOMAIN l>>,
      startDateTime |-> "2026-01-05T08:15:00", arrivalDateTime |-> "2026-01-05T08:40:00",
      fare |-> [totalCost |-> 290]],
     [duration |-> 31, legs |-> <<CHOOSE l \in LegRecs : "instruction" \notin DOMAIN l,
                                  CHOOSE l \in LegRecs : "instruction" \in DOMAIN l>>,
      fare |-> EmptyObject]}

JourneyBodies == {EmptyObject} \cup {[journeys |-> js] : js \in SeqsUpTo(JourneyRecs, MaxJourneys)}

\* f"{total / 100:.2f}" for a whole number of pence
Pounds(total) ==
    ToString(total \div 100) \o "." \o ToString((total % 100) \div 10) \o ToString(total % 10)

\* the summaries of the legs that have one
RECURSIVE LegSummaries(_)
LegSummaries(legs) ==
    IF legs = <<>> THEN <<>>
    ELSE LET summary == Get(Get(Head(legs), "instruction", EmptyObject), "summary", "")
         IN  (IF summary # "" THEN <<summary>> ELSE <<>>) \o LegSummaries(Tail(legs))

format_journey(journey) ==
    LET start       == Get(journey, "startDateTime", "")
        arrive      == Get(journey, "arrivalDateTime", "")
        start_time  == IF Len(start) >= 16 THEN SubSeq(start, 12, 16) ELSE ""
        arrive_time == IF Len(arrive) >= 16 THEN SubSeq(arrive, 12, 16) ELSE ""
        time_info   == IF start_time # ""
                       THEN " (depart " \o start_time \o ", arrive " \o arrive_time \o ")"
                       ELSE ""
        total       == Get(Get(journey, "fare", EmptyObject), "totalCost", 0)
        fare_str    == IF total # 0 THEN " - GBP" \o Pounds(total) ELSE ""
    IN  "(clock) " \o ToString(journey.duration) \o "min" \o time_info \o fare_str \o ": "
        \o JoinWith(LegSummaries(journey.legs), " -> ")

\* the detail lines cmd_journey prints under a journey
RECURSIVE LegDetails(_)
LegDetails(legs) ==
    IF legs = <<>> THEN <<>>
    ELSE LET detail == Get(Get(Head(legs), "instruction", EmptyObject), "detailed", "")
         IN  (IF detail # ""
              THEN <<"     " \o detail \o " (" \o ToString(Get(Head(legs), "duration", 0)) \o "min)">>
              ELSE <<>>)
             \o LegDetails(Tail(legs))

\* what the loop of cmd_journey prints for the journeys js
RECURSIVE JourneyLines(_)
JourneyLines(js) ==
    IF js = <<>> THEN <<>>
    ELSE <<format_journey(Head(js))>> \o LegDetails(Head(js).legs) \o <<"">>
         \o JourneyLines(Tail(js))

\* percentages of the baseline are written in hundredths: 0.35 is 35
Percentages == {0, 19, 20, 35, 50, 79, 80, 120}

LiveBodies ==
    {EmptyObject, [dataAvailable |-> FALSE]}
    \cup {[dataAvailable |-> TRUE, percentageOfBaseline |-> q, timeLocal |-> "2026-01-05 08:15"] :
            q \in Percentages}

\* mutant: the band limits are inclusive
_busyness_label_Inclusive(pct) ==
    IF pct <= 20 THEN "(green) Quiet"
    ELSE IF pct <= 50 THEN "(yellow) Moderate"
    ELSE IF pct <= 80 THEN "(orange) Busy"
    ELSE "(red) Very busy"

_busyness_label(pct) ==
    IF pct < 20 THEN "(green) Quiet"
    ELSE IF pct < 50 THEN "(yellow) Moderate"
    ELSE IF pct < 80 THEN "(orange) Busy"
    ELSE "(red) Very busy"

DayRecs ==
    {[dayOfWeek |-> d, amPeakTimeBand |-> "07:45-09:45", pmPeakTimeBand |-> "16:45-18:45",
      timeBands |-> <<[timeBand |-> "08:00-08:15", percentageOfBaseLine |-> 35],
                      [timeBand |-> "03:00-03:15", percentageOfBaseLine |-> 19]>>] :
        d \in {"MON", "TUE"}}

DayBodies == {EmptyObject} \cup {[daysOfWeek |-> ds] : ds \in SeqsUpTo(DayRecs, MaxDays)}

\* "#" * n, for the bar of a time band
RECURSIVE Bar(_)
Bar(n) == IF n <= 0 THEN "" ELSE "#" \o Bar(n - 1)

\* the lines cmd_busyness_pattern prints for the time bands tbs
RECURSIVE TimeBandLines(_)
TimeBandLines(tbs) ==
    IF tbs = <<>> THEN <<>>
    ELSE LET pct == Head(tbs).percentageOfBaseLine
         IN  (IF pct >= 30
              THEN <<"    " \o Head(tbs).timeBand \o " " \o Bar(pct \div 5) \o " " \o ToString(pct) \o "%">>
              ELSE <<>>)
             \o TimeBandLines(Tail(tbs))

(***************************************************************************)
(* One run of the program: main() parses the command line and calls the   *)
(* command's function; _get blocks on every HTTP request.                 *)
(*   pc = "main"          before args.func(args)                          *)
(*   pc = "search"        a stop search is in flight                      *)
(*   pc = "detail"        a stop-detail lookup is in flight               *)
(*   pc = "data"          the command's data fetch is in flight           *)
(*   pc = "..._done"      httpx.get has come back to _get                 *)
(*   pc = "exited"        the process has ended with exitcode             *)
(* calls[i].status is NoResp.status while request i is in flight and the  *)
(* status of its answer afterwards.                                        *)
(***************************************************************************)
\* the Namespace of a command line; the attributes of the other commands are
\* carried along unused, and an option that was not given (None) is written ""
Namespace(command, json, line, limit) ==
    [command |-> command, json |-> json, line |-> line, limit |-> limit,
     station |-> "bank", origin |-> "nowhere", destination |-> "somewhere",
     query |-> "oxford circus", name |-> "Victoria Line", day |-> "monday"]

\* --json, --line and --limit of the arrivals command lines
ArrivalOptions ==
    {<<FALSE, "", 1>>, <<FALSE, "", 5>>, <<FALSE, "", 0>>, <<FALSE, "", 0 - 1>>,
     <<FALSE, "Victoria", 5>>, <<FALSE, " VICTORIA Line,central", 1>>,
     <<FALSE, "Hammersmith & City", 5>>,
     <<TRUE, "", 1>>, <<TRUE, "victoria line", 1>>, <<TRUE, "Hammersmith & City", 5>>}

CommandLines ==
    {Namespace("status", j, l, 0) :
        j \in BOOLEAN, l \in {"", "Victoria Line,hammersmith & city"}}
    \cup {Namespace("disruptions", j, "", 0) : j \in BOOLEAN}
    \cup {Namespace("line", j, "", 0) : j \in BOOLEAN}
    \cup {Namespace("arrivals", o[1], o[2], o[3]) : o \in ArrivalOptions}
    \cup {Namespace("journey", j, "", lim) : j \in BOOLEAN, lim \in {1, 3}}
    \cup {Namespace("search", j, "", 0) : j \in BOOLEAN}
    \cup {Namespace("busyness", j, "", 0) : j \in BOOLEAN}
    \cup {[Namespace("busyness-pattern", j, "", 0) EXCEPT !.day = d] :
        j \in BOOLEAN, d \in {"monday", "Sunday"}}

\* stress_test.py 23-26: the globals as the module sets them
StressAtImport ==
    /\ passed = 0
    /\ failed = 0
    /\ rate_limited = 0
    /\ errors = <<>>
    /\ tests = <<>>

Init ==
    /\ args \in CommandLines
    /\ pc = "main"
    /\ calls = <<>>
    /\ resp = NoResp
    /\ best = <<>>
    /\ stations = <<>>
    /\ stdout = <<>>
    /\ stderr = <<>>
    /\ exitcode = 0
    /\ input = ""
    /\ output = <<>>
    /\ StressAtImport

\* sys.exit(code), or the end of main
Exit(code) == pc' = "exited" /\ exitcode' = code

\* mutant: the request goes out twice
Issue_Twice(kind, arg, at) ==
    /\ calls' = calls \o <<[kind |-> kind, arg |-> arg, status |-> NoResp.status],
                           [kind |-> kind, arg |-> arg, status |-> NoResp.status]>>
    /\ resp' = NoResp
    /\ pc' = at

\* _get, up to httpx.get: the request goes out and the program waits at `at`
Issue(kind, arg, at) ==
    /\ calls' = Append(calls, [kind |-> kind, arg |-> arg, status |-> NoResp.status])
    /\ resp' = NoResp
    /\ pc' = at

\* the bodies the API may answer a request of this kind with
Bodies(kind) ==
    CASE kind = "search"        -> SearchBodies
      [] kind = "detail"        -> StopBodies
      [] kind = "status"        -> StatusBodies
      [] kind = "arrivals"      -> ArrivalBodies
      [] kind = "journey"       -> JourneyBodies
      [] kind = "crowding_live" -> LiveBodies
      [] kind = "crowding_day"  -> DayBodies

\* httpx.get comes back: with a transport error or a non-2xx status, or with
\* a 200 and a body
Deliver ==
    /\ pc \in {"search", "detail", "data"}
    /\ \E r \in {[status |-> f] : f \in FailureStatuses}
              \cup {[status |-> 200, body |-> b] : b \in Bodies(calls[Len(calls)].kind)} :
          /\ resp' = r
          /\ calls' = [calls EXCEPT ![Len(calls)].status = r.status]
    /\ pc' = pc \o "_done"
    /\ UNCHANGED <<args, best, stations, stdout, stderr, exitcode, input, stress, output>>

\* mutant: a failed request is sent once more
main_api_error_Retry ==
    /\ pc \in {"search_done", "detail_done", "data_done"}
    /\ resp.status # 200
    /\ Len(calls) < 4
    /\ calls' = Append(calls, [calls[Len(calls)] EXCEPT !.status = NoResp.status])
    /\ resp' = NoResp
    /\ pc' = SubSeq(pc, 1, Len(pc) - 5)
    /\ UNCHANGED <<args, best, stations, stdout, stderr, exitcode, input, stress, output>>

\* mutant: the handler also prints an empty result
main_api_error_EmptyResult ==
    /\ pc \in {"search_done", "detail_done", "data_done"}
    /\ resp.status # 200
    /\ stderr' = Append(stderr, "API error: " \o ToString(resp.status))
    /\ stdout' = Append(stdout, "[]")
    /\ Exit(1)
    /\ UNCHANGED <<args, calls, resp, best, stations, input, stress, output>>

\* _get raises httpx.HTTPError (httpx.get or raise_for_status); main catches it
main_api_error ==
    /\ pc \in {"search_done", "detail_done", "data_done"}
    /\ resp.status # 200
    /\ stderr' = Append(stderr, "API error: " \o ToString(resp.status))
    /\ Exit(1)
    /\ UNCHANGED <<args, calls, resp, best, stations, stdout, input, stress, output>>

(***************************************************************************)
(* Station resolution, and what each command does with the station.       *)
(***************************************************************************)
\* the query resolve_station has been called with
ResolveQuery ==
    IF args.command = "journey"
    THEN IF stations = <<>> THEN args.origin ELSE args.destination
    ELSE args.station

\* resolve_station, up to the stop search
resolve_station_search(query) == Issue("search", <<query>>, "search")

\* mutant: the loop over the children does not stop at the first hit
Naptan_LastChild(station_id, children) ==
    LET underground == {i \in 1..Len(children) : StartsWith(children[i].id, "940GZZLU")}
    IN  IF underground = {} THEN station_id ELSE children[Max(underground)].id

\* the crowding-capable identifier: the first child with the underground
\* prefix, else the station id
Naptan(station_id, children) ==
    LET underground == {i \in 1..Len(children) : StartsWith(children[i].id, "940GZZLU")}
    IN  IF underground = {} THEN station_id ELSE children[Min(underground)].id

\* the dictionary resolve_station returns
Station(match, naptan) ==
    [id |-> match.id, name |-> match.name, lat |-> Get(match, "lat", 0),
     lon |-> Get(match, "lon", 0), naptan |-> naptan]

\* cmd_arrivals, from the resolved station to its fetch
cmd_arrivals_fetch(station) ==
    /\ stations' = Append(stations, station)
    /\ Issue("arrivals", <<station.naptan>>, "data")
    /\ UNCHANGED <<stderr, exitcode>>

\* mutant: the journey is refused only when both endpoints are at (0,0)
cmd_journey_resolved_BothZero(station) ==
    LET resolved == Append(stations, station)
    IN  /\ stations' = resolved
        /\ IF Len(resolved) = 1
           THEN resolve_station_search(args.destination) /\ UNCHANGED <<stderr, exitcode>>
           ELSE IF /\ resolved[1].lat = 0 /\ resolved[1].lon = 0
                   /\ resolved[2].lat = 0 /\ resolved[2].lon = 0
           THEN /\ stderr' = Append(stderr, "Could not get coordinates for '" \o args.origin \o "'")
                /\ Exit(1)
                /\ UNCHANGED <<calls, resp>>
           ELSE /\ Issue("journey", <<resolved[1].lat, resolved[1].lon,
                                      resolved[2].lat, resolved[2].lon>>, "data")
                /\ UNCHANGED <<stderr, exitcode>>

\* cmd_journey, from a resolved station to the next request or to the exit
cmd_journey_resolved(station) ==
    LET resolved == Append(stations, station)
    IN  /\ stations' = resolved
        /\ IF Len(resolved) = 1
           THEN resolve_station_search(args.destination) /\ UNCHANGED <<stderr, exitcode>>
           ELSE IF resolved[1].lat = 0 /\ resolved[1].lon = 0
           THEN /\ stderr' = Append(stderr, "Could not get coordinates for '" \o args.origin \o "'")
                /\ Exit(1)
                /\ UNCHANGED <<calls, resp>>
           ELSE IF resolved[2].lat = 0 /\ resolved[2].lon = 0
           THEN /\ stderr' = Append(stderr, "Could not get coordinates for '" \o args.destination \o "'")
                /\ Exit(1)
                /\ UNCHANGED <<calls, resp>>
           ELSE /\ Issue("journey", <<resolved[1].lat, resolved[1].lon,
                                      resolved[2].lat, resolved[2].lon>>, "data")
                /\ UNCHANGED <<stderr, exitcode>>

\* cmd_busyness, from the resolved station to its fetch
cmd_busyness_fetch(station) ==
    /\ stations' = Append(stations, station)
    /\ Issue("crowding_live", <<station.naptan>>, "data")
    /\ UNCHANGED <<stderr, exitcode>>

\* cmd_busyness_pattern, from the resolved station to its fetch
cmd_busyness_pattern_fetch(station) ==
    /\ stations' = Append(stations, station)
    /\ Issue("crowding_day", <<station.naptan>>, "data")
    /\ UNCHANGED <<stderr, exitcode>>

\* resolve_station returns station to the command that called it
Return(station) ==
    CASE args.command = "arrivals"         -> cmd_arrivals_fetch(station)
      [] args.command = "journey"          -> cmd_journey_resolved(station)
      [] args.command = "busyness"         -> cmd_busyness_fetch(station)
      [] args.command = "busyness-pattern" -> cmd_busyness_pattern_fetch(station)

\* mutant: the message is printed but the process ends with status 0
resolve_station_not_found_ExitZero(query) ==
    /\ stderr' = Append(stderr, "No stations found for '" \o query \o "'")
    /\ Exit(0)
    /\ UNCHANGED <<calls, resp, best, stations>>

\* resolve_station, when the search has no match
resolve_station_not_found(query) ==
    /\ stderr' = Append(stderr, "No stations found for '" \o query \o "'")
    /\ Exit(1)
    /\ UNCHANGED <<calls, resp, best, stations>>

\* main calls a command that starts by resolving a station
cmd_resolving ==
    /\ pc = "main"
    /\ args.command \in {"arrivals", "journey", "busyness", "busyness-pattern"}
    /\ resolve_station_search(ResolveQuery)
    /\ UNCHANGED <<args, best, stations, stdout, stderr, exitcode, input, stress, output>>

\* resolve_station, from the answer of the stop search on
resolve_station_matches ==
    /\ pc = "search_done"
    /\ resp.status = 200
    /\ LET matches == Get(resp.body, "matches", <<>>)
       IN  IF matches = <<>>
           THEN resolve_station_not_found(ResolveQuery)
           ELSE IF StartsWith(matches[1].id, "HUB")
           THEN /\ best' = matches[1]
                /\ Issue("detail", <<matches[1].id>>, "detail")
                /\ UNCHANGED <<stations, stderr, exitcode>>
           ELSE /\ best' = matches[1]
                /\ Return(Station(matches[1], matches[1].id))
    /\ UNCHANGED <<args, stdout, input, stress, output>>

\* resolve_station, from the answer of the stop-detail lookup on
resolve_station_children ==
    /\ pc = "detail_done"
    /\ resp.status = 200
    /\ Return(Station(best, Naptan(best.id, Get(resp.body, "children", <<>>))))
    /\ UNCHANGED <<args, best, stdout, input, stress, output>>

(***************************************************************************)
(* The commands: up to the data fetch, and from its answer to the exit.   *)
(***************************************************************************)
\* print(json.dumps(data, indent=2))
JsonDump(data) == [json |-> data]

\* the function returns, main ends and the process exits with status 0, having
\* printed the lines
PrintAndReturn(printed) ==
    /\ stdout' = stdout \o printed
    /\ Exit(0)
    /\ UNCHANGED stderr

\* cmd_status, up to fetch_status(lines_filter)
cmd_status_fetch ==
    /\ pc = "main"
    /\ args.command = "status"
    /\ LET names == Split(args.line, ",")
           lines_filter == IF args.line # ""
                           THEN [i \in 1..Len(names) |-> normalize_line(names[i])]
                           ELSE <<>>
       IN  Issue("status", lines_filter, "data")
    /\ UNCHANGED <<args, best, stations, stdout, stderr, exitcode, input, stress, output>>

\* cmd_status, from the fetched lines on
cmd_status_print ==
    /\ pc = "data_done"
    /\ resp.status = 200
    /\ args.command = "status"
    /\ LET data == resp.body
       IN  IF args.json THEN PrintAndReturn(<<JsonDump(data)>>)
           ELSE IF \E i \in 1..Len(data) : SortKeyRaises(data[i])
           THEN \* the key function of sorted raises; nothing catches IndexError
                /\ stderr' = Append(stderr, "IndexError: list index out of range")
                /\ Exit(1)
                /\ UNCHANGED stdout
           ELSE PrintAndReturn([i \in 1..Len(data) |-> format_line(SortedBySeverity(data)[i])])
    /\ UNCHANGED <<args, calls, resp, best, stations, input, stress, output>>

\* cmd_disruptions, up to fetch_status()
cmd_disruptions_fetch ==
    /\ pc = "main"
    /\ args.command = "disruptions"
    /\ Issue("status", <<>>, "data")
    /\ UNCHANGED <<args, best, stations, stdout, stderr, exitcode, input, stress, output>>

\* cmd_disruptions, from the fetched lines on
cmd_disruptions_print ==
    /\ pc = "data_done"
    /\ resp.status = 200
    /\ args.command = "disruptions"
    /\ LET disrupted == Disrupted(resp.body)
       IN  IF args.json THEN PrintAndReturn(<<JsonDump(disrupted)>>)
           ELSE IF disrupted = <<>> THEN PrintAndReturn(<<"(green) All lines running normally">>)
           ELSE IF \E i \in 1..Len(disrupted) : SortKeyRaises(disrupted[i])
           THEN /\ stderr' = Append(stderr, "IndexError: list index out of range")
                /\ Exit(1)
                /\ UNCHANGED stdout
           ELSE PrintAndReturn([i \in 1..Len(disrupted) |->
                                    format_line(SortedBySeverity(disrupted)[i])])
    /\ UNCHANGED <<args, calls, resp, best, stations, input, stress, output>>

\* cmd_line, up to fetch_status([name])
cmd_line_fetch ==
    /\ pc = "main"
    /\ args.command = "line"
    /\ Issue("status", <<normalize_line(args.name)>>, "data")
    /\ UNCHANGED <<args, best, stations, stdout, stderr, exitcode, input, stress, output>>

\* mutant: the message is printed but the process ends with status 0
cmd_line_print_NoExit ==
    /\ pc = "data_done"
    /\ resp.status = 200
    /\ args.command = "line"
    /\ LET data == resp.body
       IN  IF args.json THEN PrintAndReturn(<<JsonDump(data)>>)
           ELSE IF data = <<>>
           THEN PrintAndReturn(<<"Line '" \o args.name \o "' not found">>)
           ELSE PrintAndReturn([i \in 1..Len(data) |-> format_line(data[i])])
    /\ UNCHANGED <<args, calls, resp, best, stations, input, stress, output>>

\* cmd_line, from the fetched lines on
cmd_line_print ==
    /\ pc = "data_done"
    /\ resp.status = 200
    /\ args.command = "line"
    /\ LET data == resp.body
       IN  IF args.json THEN PrintAndReturn(<<JsonDump(data)>>)
           ELSE IF data = <<>>
           THEN /\ stdout' = Append(stdout, "Line '" \o args.name \o "' not found")
                /\ Exit(1)
                /\ UNCHANGED stderr
           ELSE PrintAndReturn([i \in 1..Len(data) |-> format_line(data[i])])
    /\ UNCHANGED <<args, calls, resp, best, stations, input, stress, output>>

\* cmd_search, up to its stop search
cmd_search_fetch ==
    /\ pc = "main"
    /\ args.command = "search"
    /\ Issue("search", <<args.query>>, "data")
    /\ UNCHANGED <<args, best, stations, stdout, stderr, exitcode, input, stress, output>>

\* mutant: an empty search ends the process with status 1
cmd_search_print_Exits ==
    /\ pc = "data_done"
    /\ resp.status = 200
    /\ args.command = "search"
    /\ LET matches == Get(resp.body, "matches", <<>>)
       IN  IF args.json THEN PrintAndReturn(<<JsonDump(matches)>>)
           ELSE IF matches = <<>>
           THEN /\ stdout' = Append(stdout, "No stations found for '" \o args.query \o "'")
                /\ Exit(1)
                /\ UNCHANGED stderr
           ELSE PrintAndReturn([i \in 1..Len(matches) |->
                                    "  " \o matches[i].name \o " (" \o matches[i].id \o ")"])
    /\ UNCHANGED <<args, calls, resp, best, stations, input, stress, output>>

\* cmd_search, from the answer of the stop search on
cmd_search_print ==
    /\ pc = "data_done"
    /\ resp.status = 200
    /\ args.command = "search"
    /\ LET matches == Get(resp.body, "matches", <<>>)
       IN  IF args.json THEN PrintAndReturn(<<JsonDump(matches)>>)
           ELSE IF matches = <<>>
           THEN PrintAndReturn(<<"No stations found for '" \o args.query \o "'">>)
           ELSE PrintAndReturn([i \in 1..Len(matches) |->
                                    "  " \o matches[i].name \o " (" \o matches[i].id \o ")"])
    /\ UNCHANGED <<args, calls, resp, best, stations, input, stress, output>>

\* cmd_arrivals, from the fetched arrivals on
cmd_arrivals_print ==
    /\ pc = "data_done"
    /\ resp.status = 200
    /\ args.command = "arrivals"
    /\ LET station == stations[1]
           data    == IF args.line # "" THEN FilterByLine(resp.body, args.line) ELSE resp.body
       IN  IF args.json THEN PrintAndReturn(<<JsonDump(data)>>)
           ELSE IF data = <<>>
           THEN PrintAndReturn(<<"No arrivals at " \o station.name
                                 \o (IF args.line # "" THEN " for " \o args.line ELSE "")>>)
           ELSE PrintAndReturn(<<"(pin) " \o station.name \o "\n">>
                               \o GroupLines(GroupByLine(SortArrivals(data)), args.limit))
    /\ UNCHANGED <<args, calls, resp, best, stations, input, stress, output>>

\* cmd_journey, from the fetched journey plan on
cmd_journey_print ==
    /\ pc = "data_done"
    /\ resp.status = 200
    /\ args.command = "journey"
    /\ LET data     == resp.body
           journeys == Get(data, "journeys", <<>>)
       IN  IF args.json THEN PrintAndReturn(<<JsonDump(data)>>)
           ELSE IF journeys = <<>>
           THEN PrintAndReturn(<<"No routes from " \o stations[1].name \o " to " \o stations[2].name>>)
           ELSE PrintAndReturn(<<"(pin) " \o stations[1].name \o " -> " \o stations[2].name \o "\n">>
                               \o JourneyLines(Slice(journeys, args.limit)))
    /\ UNCHANGED <<args, calls, resp, best, stations, input, stress, output>>

\* cmd_busyness, from the fetched live crowding on
cmd_busyness_print ==
    /\ pc = "data_done"
    /\ resp.status = 200
    /\ args.command = "busyness"
    /\ LET live == resp.body
       IN  IF args.json THEN PrintAndReturn(<<JsonDump(live)>>)
           ELSE IF Get(live, "dataAvailable", FALSE)
           THEN PrintAndReturn(<<"(pin) " \o stations[1].name \o " - Live busyness\n",
                                 "  " \o _busyness_label(live.percentageOfBaseline) \o " ("
                                      \o ToString(live.percentageOfBaseline) \o "% of baseline)",
                                 "  Updated: " \o live.timeLocal>>)
           ELSE PrintAndReturn(<<"(pin) " \o stations[1].name \o " - Live busyness\n",
                                 "  No live data available">>)
    /\ UNCHANGED <<args, calls, resp, best, stations, input, stress, output>>

\* cmd_busyness_pattern, from the fetched day patterns on
cmd_busyness_pattern_print ==
    /\ pc = "data_done"
    /\ resp.status = 200
    /\ args.command = "busyness-pattern"
    /\ LET day_data   == resp.body
           days       == Get(day_data, "daysOfWeek", <<>>)
           target_day == Slice(Upper(args.day), 3)
           found      == {i \in 1..Len(days) : days[i].dayOfWeek = target_day}
       IN  IF args.json THEN PrintAndReturn(<<JsonDump(day_data)>>)
           ELSE IF found # {}
           THEN LET day == days[Min(found)]
                IN  PrintAndReturn(<<"(pin) " \o stations[1].name \o " - Typical " \o args.day \o "\n",
                                     "  AM peak: " \o day.amPeakTimeBand,
                                     "  PM peak: " \o day.pmPeakTimeBand \o "\n">>
                                   \o TimeBandLines(day.timeBands))
           ELSE PrintAndReturn(<<"No data for " \o args.day>>)
    /\ UNCHANGED <<args, calls, resp, best, stations, input, stress, output>>

Next ==
    \/ cmd_status_fetch
    \/ cmd_disruptions_fetch
    \/ cmd_line_fetch
    \/ cmd_search_fetch
    \/ cmd_resolving
    \/ Deliver
    \/ main_api_error
    \/ resolve_station_matches
    \/ resolve_station_children
    \/ cmd_status_print
    \/ cmd_disruptions_print
    \/ cmd_line_print
    \/ cmd_search_print
    \/ cmd_arrivals_print
    \/ cmd_journey_print
    \/ cmd_busyness_print
    \/ cmd_busyness_pattern_print

Spec == Init /\ [][Next]_vars

(***************************************************************************)
(* Claims about a run (checked under Spec).                                *)
(***************************************************************************)
Answered(c) == c.status # NoResp.status

Failed(c) == Answered(c) /\ c.status # 200

StartsWithHub(id) == Len(id) >= 3 /\ Char(id, 1) = "H" /\ Char(id, 2) = "U" /\ Char(id, 3) = "B"

\* C1: a failed HTTP call (transport error or non-2xx) is the last call of the
\* run, never retried or followed by another; nothing but the top-level handler
\* can run after it, and the process ends with status 1 and an "API error:"
\* line on stderr.
C1_ApiErrorIsFatal ==
    \A i \in 1..Len(calls) :
        Failed(calls[i]) =>
            /\ i = Len(calls)
            /\ pc \in {"search_done", "detail_done", "data_done", "exited"}
            /\ (pc # "exited" => ENABLED main_api_error)
            /\ (pc = "exited" =>
                    /\ exitcode = 1
                    /\ stderr # <<>>
                    /\ SubSeq(stderr[Len(stderr)], 1, 10) = "API error:")

\* a crowding fetch, made after a successful resolution, has failed with 404
C1_Witness ==
    /\ pc = "exited"
    /\ exitcode = 1
    /\ Len(calls) = 3
    /\ calls[3].kind = "crowding_live"
    /\ calls[3].status = 404

\* C2: when the stop search of resolve_station comes back with no match, the
\* next step is the end of the process with status 1 and a message on stderr,
\* without any further request; and nothing is requested after the exit.
C2_NoMatchIsFatal ==
    [][/\ (pc = "search_done" /\ resp.status = 200 /\ Get(resp.body, "matches", <<>>) = <<>>)
           => /\ pc' = "exited"
              /\ exitcode' = 1
              /\ calls' = calls
              /\ stderr' = Append(stderr, "No stations found for '"
                                          \o calls[Len(calls)].arg[1] \o "'")
       /\ (pc = "exited" => pc' = "exited" /\ calls' = calls)]_vars

\* with --json, the destination of a journey was not found after the origin was
C2_Witness ==
    /\ pc = "exited"
    /\ args.command = "journey"
    /\ args.json
    /\ Len(stations) = 1
    /\ stderr = <<"No stations found for 'somewhere'">>
    /\ exitcode = 1

IsUnderground(child) == Len(child.id) >= 8 /\ SubSeq(child.id, 1, 8) = "940GZZLU"

\* the station the claim describes, for the first match and the hub's children
ClaimedStation(first, children) ==
    [id     |-> first.id,
     name   |-> first.name,
     lat    |-> IF "lat" \in DOMAIN first THEN first.lat ELSE 0,
     lon    |-> IF "lon" \in DOMAIN first THEN first.lon ELSE 0,
     naptan |-> IF StartsWithHub(first.id) /\ \E i \in 1..Len(children) : IsUnderground(children[i])
                THEN children[CHOOSE i \in 1..Len(children) :
                                  /\ IsUnderground(children[i])
                                  /\ \A j \in 1..(i - 1) : ~IsUnderground(children[j])].id
                ELSE first.id]

\* C3: resolve_station returns id, name and coordinates of the first match
\* (absent lat or lon as 0), with the first underground child of a hub as
\* naptan, else the id itself; for a hub, the children are those of the first
\* match's stop-detail lookup.
C3_ResolvedFromFirstMatch ==
    [][/\ (pc = "search_done" /\ resp.status = 200 /\ Get(resp.body, "matches", <<>>) # <<>>)
           => LET first == resp.body.matches[1]
              IN  IF StartsWithHub(first.id)
                  THEN /\ best' = first
                       /\ stations' = stations
                       /\ calls' = Append(calls, [kind |-> "detail", arg |-> <<first.id>>,
                                                  status |-> NoResp.status])
                  ELSE stations' = Append(stations, ClaimedStation(first, <<>>))
       /\ (pc = "detail_done" /\ resp.status = 200)
           => stations' = Append(stations,
                                 ClaimedStation(best, Get(resp.body, "children", <<>>)))]_vars

\* a hub resolved to an underground child, from a match that had no lon
C3_Witness ==
    /\ stations # <<>>
    /\ stations[1].id = "HUBBAN"
    /\ stations[1].naptan = "940GZZLUMMT"
    /\ stations[1].lat = 51
    /\ stations[1].lon = 0

\* C4, as claimed: the crowding endpoints are never requested with a
\* HUB-prefixed identifier.
C4_NoHubToCrowding ==
    \A i \in 1..Len(calls) :
        calls[i].kind \in {"crowding_live", "crowding_day"} => ~StartsWithHub(calls[i].arg[1])

AtZero(station) == station.lat = 0 /\ station.lon = 0

JourneyCalls == {i \in 1..Len(calls) : calls[i].kind = "journey"}

\* C5: in a journey, once both stations are resolved: if one of them is at
\* (0,0) the process has ended with status 1 and a message naming such an
\* endpoint, and no journey-planning call was issued; otherwise exactly one was,
\* with the origin's coordinates first.  Before that, none was issued.
C5_JourneyNeedsCoordinates ==
    args.command = "journey" =>
        IF Len(stations) < 2 THEN JourneyCalls = {}
        ELSE IF AtZero(stations[1]) \/ AtZero(stations[2])
        THEN /\ pc = "exited"
             /\ exitcode = 1
             /\ JourneyCalls = {}
             /\ Len(stderr) = 1
             /\ \/ /\ AtZero(stations[1])
                   /\ stderr[1] = "Could not get coordinates for '" \o args.origin \o "'"
                \/ /\ AtZero(stations[2])
                   /\ stderr[1] = "Could not get coordinates for '" \o args.destination \o "'"
        ELSE /\ JourneyCalls = {Len(calls)}
             /\ calls[Len(calls)].arg = <<stations[1].lat, stations[1].lon,
                                          stations[2].lat, stations[2].lon>>

\* the origin has coordinates, the destination has none
C5_Witness ==
    /\ args.command = "journey"
    /\ Len(stations) = 2
    /\ ~AtZero(stations[1])
    /\ AtZero(stations[2])
    /\ pc = "exited"

DataKinds == {"arrivals", "journey", "crowding_live", "crowding_day"}

\* C6: a request is issued only when every earlier one has been answered; in
\* the commands that resolve stations, a data fetch is the last request of the
\* run (so there is at most one), every request before it is a stop search or
\* the stop-detail lookup of the hub just found, each answered with 200, and
\* all the stations of the command are resolved by then.
C6_ResolutionBeforeFetch ==
    /\ \A i \in 1..(Len(calls) - 1) : Answered(calls[i])
    /\ args.command \in {"arrivals", "journey", "busyness", "busyness-pattern"} =>
        /\ \A i \in 1..Len(calls) :
              calls[i].kind = "detail" =>
                  /\ i > 1
                  /\ calls[i - 1].kind = "search"
                  /\ StartsWithHub(calls[i].arg[1])
        /\ \A i \in 1..Len(calls) :
              calls[i].kind \in DataKinds =>
                  /\ i = Len(calls)
                  /\ \A j \in 1..(i - 1) :
                        calls[j].kind \in {"search", "detail"} /\ calls[j].status = 200
                  /\ Len(stations) = (IF args.command = "journey" THEN 2 ELSE 1)
                  /\ Cardinality({j \in 1..i : calls[j].kind = "search"}) = Len(stations)

\* a journey between two hubs: search, detail, search, detail, then the fetch
C6_Witness ==
    /\ args.command = "journey"
    /\ Len(calls) = 5
    /\ calls[5].kind = "journey"
    /\ calls[5].status = 200
    /\ pc = "exited"

\* the status entries of a line, none when the key is absent
Statuses(line) == IF "lineStatuses" \in DOMAIN line THEN line.lineStatuses ELSE <<>>

\* the positions of the lines the claim selects: some entry carries a severity
\* that is neither 10 nor 14
Selected(data) ==
    {i \in 1..Len(data) :
        \E k \in 1..Len(Statuses(data[i])) :
            /\ "statusSeverity" \in DOMAIN Statuses(data[i])[k]
            /\ Statuses(data[i])[k].statusSeverity \notin {10, 14}}

\* the elements of data at the positions in keep, in the order of data
RECURSIVE Restrict(_, _)
Restrict(data, keep) ==
    IF data = <<>> THEN <<>>
    ELSE Restrict(SubSeq(data, 1, Len(data) - 1), keep)
         \o (IF Len(data) \in keep THEN <<data[Len(data)]>> ELSE <<>>)

DisruptionsDone ==
    /\ pc = "exited"
    /\ args.command = "disruptions"
    /\ resp.status = 200

\* C9: disruptions shows exactly the lines with a status entry of severity
\* other than 10 and 14: as the JSON list with --json, one entry per such line
\* in text mode, and the single line "All lines running normally" when there
\* is none.
C9_DisruptionsSelection ==
    DisruptionsDone =>
        LET data == resp.body
            keep == Selected(data)
        IN  /\ exitcode = 0
            /\ IF args.json THEN stdout = <<[json |-> Restrict(data, keep)]>>
               ELSE IF keep = {} THEN stdout = <<"(green) All lines running normally">>
               ELSE /\ Len(stdout) = Cardinality(keep)
                    /\ {stdout[k] : k \in 1..Len(stdout)} = {format_line(data[i]) : i \in keep}

\* text mode, two lines: one with severity 14 only, one with a severity that
\* the table does not know; only the second is printed
C9_Witness ==
    /\ DisruptionsDone
    /\ ~args.json
    /\ Len(resp.body) = 2
    /\ Statuses(resp.body[1]) = <<[statusSeverity |-> 14, statusSeverityDescription |-> ApiDescription(14)]>>
    /\ Statuses(resp.body[2]) = <<[statusSeverity |-> 12, statusSeverityDescription |-> ApiDescription(12)]>>
    /\ stdout = <<format_line(resp.body[2])>>

\* the lines a text-mode status or disruptions run has to show
ToShow ==
    IF args.command = "status" THEN resp.body ELSE Restrict(resp.body, Selected(resp.body))

\* the severity of the first status entry, for a line that has one
FirstSeverity(line) ==
    IF "statusSeverity" \in DOMAIN Statuses(line)[1] THEN Statuses(line)[1].statusSeverity ELSE 10

Orderings(n) ==
    {f \in [1..n -> 1..n] : \A i, j \in 1..n : f[i] = f[j] => i = j}

\* a text-mode status or disruptions run has ended with lines to show
TextRunDone ==
    /\ pc = "exited"
    /\ args.command \in {"status", "disruptions"}
    /\ ~args.json
    /\ resp.status = 200
    /\ ToShow # <<>>

\* stdout is the lines to show, each exactly once, in ascending order of the
\* first status entry's severity, equal severities in the order of the response
PrintedSortedOnce ==
    \E f \in Orderings(Len(ToShow)) :
        /\ stdout = [k \in 1..Len(ToShow) |-> format_line(ToShow[f[k]])]
        /\ \A j, k \in 1..Len(ToShow) :
              (j < k /\ Statuses(ToShow[f[j]]) # <<>> /\ Statuses(ToShow[f[k]]) # <<>>)
              => \/ FirstSeverity(ToShow[f[j]]) < FirstSeverity(ToShow[f[k]])
                 \/ /\ FirstSeverity(ToShow[f[j]]) = FirstSeverity(ToShow[f[k]])
                    /\ f[j] < f[k]

\* C10, as claimed: a text-mode status or disruptions run that has lines to
\* show prints every one of them exactly once, in ascending order of the first
\* status entry's severity, equal severities in the order of the response.
C10_SortedPermutation == TextRunDone => PrintedSortedOnce

\* the same holds for the responses in which no line has an empty lineStatuses
\* list (the sort key raises on such a line)
C10_SortedUnlessEmptyList ==
    (TextRunDone /\ \A i \in 1..Len(resp.body) : "lineStatuses" \in DOMAIN resp.body[i]
                                                   => resp.body[i].lineStatuses # <<>>)
    => PrintedSortedOnce

(***************************************************************************)
(* Claims about the arrivals command (checked under Spec).                 *)
(***************************************************************************)
LineOf(arrival) == IF "lineName" \in DOMAIN arrival THEN arrival.lineName ELSE ""

TimeOf(arrival) == IF "timeToStation" \in DOMAIN arrival THEN arrival.timeToStation ELSE 0

\* the arrivals the command shows: those of the response that pass --line
Shown == IF args.line = "" THEN resp.body ELSE FilterByLine(resp.body, args.line)

ArrivalsDone ==
    /\ pc = "exited"
    /\ args.command = "arrivals"
    /\ calls[Len(calls)].kind = "arrivals"
    /\ resp.status = 200

\* the positions in data of the arrivals of the line called name
Members(name, data) == {i \in 1..Len(data) : LineOf(data[i]) = name}

\* the position in data of the arrival of line name that has k arrivals of its
\* line before it in ascending timeToStation (equal times by position)
KthOfLine(name, k, data) ==
    CHOOSE i \in Members(name, data) :
        Cardinality({j \in Members(name, data) :
                        \/ TimeOf(data[j]) < TimeOf(data[i])
                        \/ TimeOf(data[j]) = TimeOf(data[i]) /\ j < i}) = k

\* the group of line name: its heading, its first count arrivals, a blank line
Block(name, count, data) ==
    <<"  " \o name \o ":">>
    \o [k \in 1..count |-> format_arrival(data[KthOfLine(name, k - 1, data)])]
    \o <<"">>

\* the groups of the lines whose names have r or more names of data before
\* them, in ascending order of the name
RECURSIVE Blocks(_, _, _)
Blocks(r, Count(_), data) ==
    LET names == {LineOf(data[i]) : i \in 1..Len(data)}
    IN  IF r >= Cardinality(names) THEN <<>>
        ELSE LET name == CHOOSE n \in names :
                            Cardinality({m \in names : StrLess(m, n)}) = r
             IN  Block(name, Count(name), data) \o Blocks(r + 1, Count, data)

\* C12, as claimed: every line is one group, the groups in ascending lineName
\* order, each with at most N arrivals, the N of smallest timeToStation in
\* ascending order, for every integer N.
C12_GroupedSortedCapped ==
    (ArrivalsDone /\ ~args.json /\ Shown # <<>>) =>
        LET AtMostN(name) == Min({args.limit, Cardinality(Members(name, Shown))})
        IN  stdout = <<"(pin) " \o stations[1].name \o "\n">> \o Blocks(0, AtMostN, Shown)

\* C12, amended: as claimed for every limit N >= 0; for a negative limit -k
\* each group shows all its arrivals but the k of greatest timeToStation.
C12_GroupedSortedSliced ==
    (ArrivalsDone /\ ~args.json /\ Shown # <<>>) =>
        LET Sliced(name) ==
                IF args.limit >= 0
                THEN Min({args.limit, Cardinality(Members(name, Shown))})
                ELSE Max({0, Cardinality(Members(name, Shown)) + args.limit})
        IN  stdout = <<"(pin) " \o stations[1].name \o "\n">> \o Blocks(0, Sliced, Shown)

\* limit 1, two arrivals of one line, the later one first in the response
C12_Witness ==
    /\ ArrivalsDone
    /\ ~args.json
    /\ args.limit = 1
    /\ Len(resp.body) = 2
    /\ LineOf(resp.body[1]) = "Victoria" /\ TimeOf(resp.body[1]) = 65
    /\ LineOf(resp.body[2]) = "Victoria" /\ TimeOf(resp.body[2]) = 0
    /\ Len(stdout) = 4
    /\ stdout[3] = format_arrival(resp.body[2])

\* the requested name r names the line called name: equal ignoring letter
\* case, surrounding whitespace and a trailing " line" of the request
Names(name, r) ==
    \/ Lower(Strip(r)) = Lower(name)
    \/ Lower(Strip(r)) = Lower(name) \o " line"

\* the positions of the arrivals that --line asks for
Requested(data, line) ==
    {i \in 1..Len(data) :
        \E k \in 1..Len(Split(line, ",")) : Names(LineOf(data[i]), Split(line, ",")[k])}

\* the lines of stdout that head a group of arrivals
GroupHeads ==
    {stdout[k] : k \in {k \in 1..Len(stdout) :
                           /\ Len(stdout[k]) > 3
                           /\ SubSeq(stdout[k], 1, 2) = "  "
                           /\ SubSeq(stdout[k], 3, 3) # " "}}

\* C13, as claimed: with --line, exactly the arrivals whose lineName is one of
\* the requested names (ignoring letter case, surrounding whitespace and a
\* trailing " line" of the request) are kept, aliased names included.
C13_LineFilterKeepsRequested ==
    (ArrivalsDone /\ args.line # "") =>
        LET keep == Requested(resp.body, args.line)
        IN  IF args.json THEN stdout = <<[json |-> Restrict(resp.body, keep)]>>
            ELSE IF keep = {}
            THEN stdout = <<"No arrivals at " \o stations[1].name \o " for " \o args.line>>
            ELSE GroupHeads = {"  " \o LineOf(resp.body[i]) \o ":" : i \in keep}

\* the same holds for the requests that name no aliased line
C13_LineFilterUnlessAlias ==
    (\A k \in 1..Len(Split(args.line, ",")) :
        Lower(Strip(Split(args.line, ",")[k])) \notin AliasKeys)
    => C13_LineFilterKeepsRequested

\* C14, as claimed: the arrivals are requested for the resolved station's id,
\* and an empty answer prints "No arrivals at <station name>" and ends normally.
C14_ArrivalsForStationId ==
    /\ \A i \in 1..Len(calls) :
          calls[i].kind = "arrivals" => calls[i].arg = <<stations[1].id>>
    /\ (ArrivalsDone /\ ~args.json /\ resp.body = <<>> /\ args.line = "")
          => stdout = <<"No arrivals at " \o stations[1].name>> /\ exitcode = 0

\* the arrivals are always requested for the naptan of the resolved station
C14_ArrivalsForNaptan ==
    \A i \in 1..Len(calls) :
        calls[i].kind = "arrivals" => calls[i].arg = <<stations[1].naptan>>

(***************************************************************************)
(* Claims about not-found results and the output modes (under Spec).       *)
(***************************************************************************)
\* the line command has its answer, and it holds no line
LineNotFound ==
    /\ pc = "exited"
    /\ args.command = "line"
    /\ resp.status = 200
    /\ resp.body = <<>>

\* C17, as claimed: when the status fetch of the line command returns no line,
\* the process ends with a non-zero status, with --json as without.
C17_LineNotFoundNonZero == LineNotFound => exitcode # 0

\* C17, amended: in text mode the command prints "Line '<name>' not found" and
\* the process ends with status 1; with --json it prints the empty list and
\* ends with status 0.
C17_LineNotFoundTextOnly ==
    LineNotFound =>
        /\ stderr = <<>>
        /\ IF args.json THEN stdout = <<[json |-> <<>>]>> /\ exitcode = 0
           ELSE stdout = <<"Line '" \o args.name \o "' not found">> /\ exitcode = 1

C17_Witness == LineNotFound /\ ~args.json /\ exitcode = 1

\* the search command has its answer, and it holds no match
SearchNotFound ==
    /\ pc = "exited"
    /\ args.command = "search"
    /\ resp.status = 200
    /\ ("matches" \in DOMAIN resp.body => resp.body.matches = <<>>)

\* C18, as claimed: with zero matches the search command reports "No stations
\* found for '<query>'" and the process ends with a non-zero status.
C18_SearchNotFoundNonZero ==
    SearchNotFound =>
        /\ exitcode # 0
        /\ \E k \in 1..Len(stdout \o stderr) :
              (stdout \o stderr)[k] = "No stations found for '" \o args.query \o "'"

\* C18, amended: with zero matches the search command prints "No stations
\* found for '<query>'" on stdout (the empty list with --json) and ends with
\* status 0; only station resolution ends with status 1, its message on stderr.
C18_SearchNotFoundIsNormal ==
    /\ SearchNotFound =>
          /\ exitcode = 0
          /\ stderr = <<>>
          /\ stdout = IF args.json THEN <<[json |-> <<>>]>>
                      ELSE <<"No stations found for '" \o args.query \o "'">>
    /\ (/\ pc = "exited"
        /\ args.command # "search"
        /\ calls # <<>>
        /\ calls[Len(calls)].kind = "search"
        /\ resp.status = 200
        /\ ("matches" \in DOMAIN resp.body => resp.body.matches = <<>>))
       => /\ exitcode = 1
          /\ stdout = <<>>
          /\ stderr = <<"No stations found for '" \o calls[Len(calls)].arg[1] \o "'">>

C18_Witness == SearchNotFound /\ ~args.json /\ stdout # <<>> /\ exitcode = 0

\* a --json run has the answer of its data fetch
JsonDone ==
    /\ pc = "exited"
    /\ args.json
    /\ resp.status = 200
    /\ \/ args.command = "search"
       \/ calls[Len(calls)].kind \in DataKinds \cup {"status"}

\* C19: with --json the only output is the JSON payload: the response itself
\* for status, line, journey, busyness and busyness-pattern, the selected
\* lines for disruptions, the list of matches for search, and for arrivals the
\* arrivals of some set of lines (all of them without --line); elements keep
\* the order of the response and none is cut off by --limit.
C19_JsonPayloadOnly ==
    JsonDone =>
        /\ exitcode = 0
        /\ stderr = <<>>
        /\ Len(stdout) = 1
        /\ DOMAIN stdout[1] = {"json"}
        /\ LET body    == resp.body
               payload == stdout[1].json
           IN  CASE args.command \in {"status", "line", "journey", "busyness", "busyness-pattern"}
                      -> payload = body
                 [] args.command = "disruptions"
                      -> payload = Restrict(body, Selected(body))
                 [] args.command = "search"
                      -> payload = (IF "matches" \in DOMAIN body THEN body.matches ELSE <<>>)
                 [] args.command = "arrivals"
                      -> IF args.line = "" THEN payload = body
                         ELSE \E names \in SUBSET {LineOf(body[i]) : i \in 1..Len(body)} :
                                 payload = Restrict(body, {i \in 1..Len(body) :
                                                              LineOf(body[i]) \in names})

\* arrivals with --json, --line and --limit 1: both arrivals of the line are
\* emitted, in the order of the response
C19_Witness ==
    /\ JsonDone
    /\ args.command = "arrivals"
    /\ args.limit = 1
    /\ args.line # ""
    /\ Len(resp.body) = 2
    /\ TimeOf(resp.body[1]) = 65
    /\ TimeOf(resp.body[2]) = 0
    /\ stdout = <<[json |-> resp.body]>>

\* C20: nothing is written to stdout before the last HTTP call of the run has
\* been answered, and every call was answered with 200 by then; a run that
\* ends with status 1 after a failed call, a station not found or unresolved
\* coordinates has written nothing to stdout.
C20_NoPartialOutput ==
    /\ stdout # <<>> =>
          /\ pc = "exited"
          /\ \A i \in 1..Len(calls) : calls[i].status = 200
    /\ (/\ pc = "exited"
        /\ exitcode = 1
        /\ \/ Failed(calls[Len(calls)])
           \/ /\ stderr # <<>>
              /\ \/ SubSeq(stderr[Len(stderr)], 1, 21) = "No stations found for"
                 \/ SubSeq(stderr[Len(stderr)], 1, 29) = "Could not get coordinates for")
       => stdout = <<>>

\* a journey whose last call, the plan itself, failed after four good answers
C20_Witness ==
    /\ pc = "exited"
    /\ exitcode = 1
    /\ Len(calls) = 5
    /\ calls[5].kind = "journey"
    /\ Failed(calls[5])
    /\ stdout = <<>>

(***************************************************************************)
(* Claims about the status command in text mode (checked under Spec).      *)
(***************************************************************************)
\* a text-mode status run whose fetch succeeded has ended
StatusTextDone ==
    /\ pc = "exited"
    /\ args.command = "status"
    /\ ~args.json
    /\ resp.status = 200

\* the block the claim describes for a line: the fallback for a line without
\* status entries, and otherwise the rendering of the line in which an entry
\* without statusSeverity carries severity 10
ClaimedBlock(line) ==
    IF Statuses(line) = <<>> THEN "(white) " \o line.name \o ": Unknown"
    ELSE format_line([name |-> line.name,
                      lineStatuses |-> [k \in 1..Len(Statuses(line)) |->
                                            Statuses(line)[k] @@ [statusSeverity |-> 10]]])

\* stdout is one claimed block per fetched line, in some order
OneBlockPerLine ==
    \E f \in Orderings(Len(resp.body)) :
        stdout = [k \in 1..Len(resp.body) |-> ClaimedBlock(resp.body[f[k]])]

\* C21, as claimed: whenever the status fetch succeeds, a text-mode status run
\* ends with exit status 0 and no uncaught error, having printed one block per
\* fetched line, whatever the shape of the lines' status lists: the fallback
\* block for a line whose lineStatuses is empty or missing, and severity 10
\* for an entry without statusSeverity.
C21_StatusTextAlwaysPrints ==
    StatusTextDone => (exitcode = 0 /\ stderr = <<>> /\ OneBlockPerLine)

\* the same holds for the responses in which no line has an empty lineStatuses
\* list; a line without the key is printed with the fallback block
C21_StatusTextUnlessEmptyList ==
    (StatusTextDone /\ \A i \in 1..Len(resp.body) : ~SortKeyRaises(resp.body[i]))
    => (exitcode = 0 /\ stderr = <<>> /\ OneBlockPerLine)

\* a line without the lineStatuses key and a line whose only entry has no
\* statusSeverity are both printed
C21_MissingKeyPrinted ==
    /\ StatusTextDone
    /\ Len(resp.body) = 2
    /\ "lineStatuses" \notin DOMAIN resp.body[1]
    /\ Statuses(resp.body[2]) = <<[statusSeverityDescription |-> "Good Service"]>>
    /\ exitcode = 0
    /\ stdout = <<"(white) " \o LineNames[1] \o ": Unknown",
                  "(green) " \o LineNames[2] \o ": Good Service">>

\* a line with an empty lineStatuses list ends the run in the sort key
C21_EmptyListRaises ==
    /\ StatusTextDone
    /\ Len(resp.body) = 1
    /\ "lineStatuses" \in DOMAIN resp.body[1]
    /\ resp.body[1].lineStatuses = <<>>
    /\ exitcode = 1
    /\ stdout = <<>>
    /\ stderr = <<"IndexError: list index out of range">>

(***************************************************************************)
(* The harness of normalize_line: an input line name, normalized once and *)
(* then once more.                                                         *)
(***************************************************************************)
LeadSpace == {"", " ", "\t "}

TrailSpace == {"", " \n"}

BaseNames ==
    {"", "line", "victoria", "Northern", "Elizabeth", "elizabeth-line",
     "Hammersmith & City", "hammersmith and city", "Waterloo And City",
     "waterloo & city", "London Overground"}

SuffixPieces == {" line", " Line", "  line", "\tLINE", "line"}

RECURSIVE Join(_)
Join(ps) == IF ps = <<>> THEN "" ELSE Head(ps) \o Join(Tail(ps))

SuffixRuns == UNION {[1..k -> SuffixPieces] : k \in 0..MaxSuffix}

LineNameInputs ==
    {l \o b \o Join(ps) \o t :
        l \in LeadSpace, b \in BaseNames, ps \in SuffixRuns, t \in TrailSpace}

InitNorm ==
    /\ input \in LineNameInputs
    /\ output = <<>>
    /\ pc = "normalize"
    /\ args = Namespace("", FALSE, "", 0)
    /\ calls = <<>>
    /\ resp = NoResp
    /\ best = <<>>
    /\ stations = <<>>
    /\ stdout = <<>>
    /\ stderr = <<>>
    /\ exitcode = 0
    /\ StressAtImport

\* normalize_line(name)
NormalizeOnce ==
    /\ pc = "normalize"
    /\ output = <<>>
    /\ output' = <<normalize_line(input)>>
    /\ UNCHANGED <<args, pc, calls, resp, best, stations, stdout, stderr, exitcode, input, stress>>

\* normalize_line(normalize_line(name))
NormalizeAgain ==
    /\ pc = "normalize"
    /\ Len(output) = 1
    /\ output' = Append(output, normalize_line(output[1]))
    /\ UNCHANGED <<args, pc, calls, resp, best, stations, stdout, stderr, exitcode, input, stress>>

NextNorm == NormalizeOnce \/ NormalizeAgain

SpecNorm == InitNorm /\ [][NextNorm]_vars

(***************************************************************************)
(* Claims about normalize_line (checked under SpecNorm).                   *)
(***************************************************************************)
\* s still ends in a whitespace character followed by the word "line"
EndsWithSpaceLine(s) ==
    /\ Len(s) >= 5
    /\ SubSeq(s, Len(s) - 3, Len(s)) = "line"
    /\ IsSpace(Char(s, Len(s) - 4))

\* C7, as claimed: normalize_line is idempotent,
\* normalize_line(normalize_line(s)) = normalize_line(s) for every input s.
C7_Idempotent == Len(output) = 2 => output[2] = output[1]

\* C7, amended: normalizing twice gives the same as normalizing once exactly
\* when the once-normalized name does not still end in whitespace followed by
\* "line" (one call removes one such suffix only).
C7_IdempotentUnlessSuffixRemains ==
    Len(output) = 2 => (output[2] = output[1] <=> ~EndsWithSpaceLine(output[1]))

\* an aliased name with a suffix has been normalized twice, to the same result
C7_Witness ==
    /\ Len(output) = 2
    /\ Lower(Strip(input)) = "london overground line"
    /\ output[2] = output[1]

\* rule (c) as claimed: exactly the five characters " line" are removed
StripLineSuffix(s) ==
    IF Len(s) >= 5 /\ SubSeq(s, Len(s) - 4, Len(s)) = " line"
    THEN SubSeq(s, 1, Len(s) - 5)
    ELSE s

\* str.rstrip
RStrip(s) ==
    LET keep == {i \in 1..Len(s) : ~IsSpace(Char(s, i))}
    IN  IF keep = {} THEN "" ELSE SubSeq(s, 1, Max(keep))

\* rule (c) as the code has it: "line" and all the whitespace before it go
StripSpaceLineSuffix(s) ==
    IF EndsWithSpaceLine(s) THEN RStrip(SubSeq(s, 1, Len(s) - 4)) ELSE s

\* the ordered rules (a) to (e), with strip as rule (c)
OrderedRules(s, strip(_)) ==
    LET t == Lower(Strip(s))
    IN  IF t \in AliasKeys THEN LINE_ALIASES(t)
        ELSE IF strip(t) \in AliasKeys THEN LINE_ALIASES(strip(t))
        ELSE strip(t)

\* every alias key, in any letter case, with surrounding whitespace and with
\* or without a trailing " line", maps to its target
AliasKeysMapped ==
    \A k \in AliasKeys :
        Lower(Strip(input)) \in {k, k \o " line"} => output[1] = LINE_ALIASES(k)

\* C8, as claimed: normalize_line returns the result of the ordered rules,
\* rule (c) removing a trailing " line".
C8_OrderedRules ==
    Len(output) >= 1 =>
        output[1] = OrderedRules(input, StripLineSuffix) /\ AliasKeysMapped

\* C8, amended: normalize_line returns the result of the ordered rules, rule
\* (c) removing a trailing "line" together with the whole run of whitespace
\* (one or more characters, of any kind) before it.
C8_OrderedRulesAnySpace ==
    Len(output) >= 1 =>
        output[1] = OrderedRules(input, StripSpaceLineSuffix) /\ AliasKeysMapped

\* an alias key in mixed case, with whitespace around it and a " Line" suffix
C8_Witness ==
    /\ Len(output) >= 1
    /\ input = " Hammersmith & City Line \n"
    /\ output[1] = "hammersmith-city"


(***************************************************************************)
(* The harness of the formatters: each is applied once to an input.       *)
(***************************************************************************)
\* a status entry as format_line reads it: every field may be absent
FormatEntries ==
    {d @@ r @@ v :
        d \in {EmptyObject} \cup {[statusSeverityDescription |-> x] :
                                     x \in {"Good Service", "Minor Delays"}},
        r \in {EmptyObject, [reason |-> " signal\nfailure "]},
        v \in {EmptyObject} \cup {[statusSeverity |-> sv] : sv \in 0..MaxSeverity}}

FormatLineInputs ==
    {[name |-> "Victoria"], [name |-> "Victoria", lineStatuses |-> <<>>]}
    \cup {[name |-> "Victoria", lineStatuses |-> <<e>>] : e \in FormatEntries}
    \cup {[name |-> "Victoria", lineStatuses |-> <<e, f>>] :
            e \in FormatEntries,
            f \in {[statusSeverity |-> 10, statusSeverityDescription |-> "Good Service"],
                   [statusSeverity |-> 15, statusSeverityDescription |-> "Diverted"]}}

FormatArrivalInputs ==
    {[timeToStation |-> t] @@ p @@ d :
        t \in (0 - MaxSeconds)..MaxSeconds,
        p \in {EmptyObject, [platformName |-> "Platform 2"],
               [platformName |-> "Westbound - Platform 1"]},
        d \in {EmptyObject, [destinationName |-> "Brixton Underground Station"]}}

\* pairs of baseline percentages, in hundredths
LabelInputs == ((0 - 5)..MaxPct) \X ((0 - 5)..MaxPct)

InitFmt ==
    /\ \/ pc = "format_line" /\ input \in FormatLineInputs
       \/ pc = "format_arrival" /\ input \in FormatArrivalInputs
       \/ pc = "_busyness_label" /\ input \in LabelInputs
    /\ output = <<>>
    /\ args = Namespace("", FALSE, "", 0)
    /\ calls = <<>>
    /\ resp = NoResp
    /\ best = <<>>
    /\ stations = <<>>
    /\ stdout = <<>>
    /\ stderr = <<>>
    /\ exitcode = 0
    /\ StressAtImport

format_line_call ==
    /\ pc = "format_line"
    /\ output = <<>>
    /\ output' = <<format_line(input)>>
    /\ UNCHANGED <<args, pc, calls, resp, best, stations, stdout, stderr, exitcode, input, stress>>

format_arrival_call ==
    /\ pc = "format_arrival"
    /\ output = <<>>
    /\ output' = <<format_arrival(input)>>
    /\ UNCHANGED <<args, pc, calls, resp, best, stations, stdout, stderr, exitcode, input, stress>>

busyness_label_call ==
    /\ pc = "_busyness_label"
    /\ output = <<>>
    /\ output' = <<_busyness_label(input[1]), _busyness_label(input[2])>>
    /\ UNCHANGED <<args, pc, calls, resp, best, stations, stdout, stderr, exitcode, input, stress>>

NextFmt == format_line_call \/ format_arrival_call \/ busyness_label_call

SpecFmt == InitFmt /\ [][NextFmt]_vars

(***************************************************************************)
(* Claims about the formatters (checked under SpecFmt).                    *)
(***************************************************************************)
FormatLineDone == pc = "format_line" /\ output # <<>>

\* the lines of the rendering that open a status entry (a reason line is indented)
EntryHeads(text) ==
    LET IsHead(l) == ~(Len(l) >= 3 /\ SubSeq(l, 1, 3) = "   ")
    IN  SelectSeq(Split(text, "\n"), IsHead)

\* C11, as claimed: each status entry is rendered with the emoji and the label
\* that the severity table gives for its severity, "Unknown" with the fallback
\* emoji for a severity that is not in the table.
C11_TableEmojiAndLabel ==
    (FormatLineDone /\ Statuses(input) # <<>>) =>
        LET heads == EntryHeads(output[1])
        IN  /\ Len(heads) = Len(Statuses(input))
            /\ \A k \in 1..Len(heads) :
                  "statusSeverity" \in DOMAIN Statuses(input)[k] =>
                      LET sev == Statuses(input)[k].statusSeverity
                      IN  heads[k] = (IF sev \in SeverityKeys THEN SEVERITY(sev)[1] ELSE "(white)")
                                     \o " Victoria: "
                                     \o (IF sev \in SeverityKeys THEN SEVERITY(sev)[2] ELSE "Unknown")

\* C11, amended: each status entry is rendered with the emoji that the severity
\* table gives for its severity (the fallback emoji for a severity that is not
\* in the table, the emoji of 10 when the entry has no severity) and with the
\* entry's own statusSeverityDescription, "Unknown" when the entry has none; a
\* line without entries is rendered with the fallback emoji and "Unknown".
C11_TableEmojiOwnDescription ==
    FormatLineDone =>
        IF Statuses(input) = <<>> THEN output[1] = "(white) Victoria: Unknown"
        ELSE LET heads == EntryHeads(output[1])
             IN  /\ Len(heads) = Len(Statuses(input))
                 /\ \A k \in 1..Len(heads) :
                       LET entry == Statuses(input)[k]
                           sev   == IF "statusSeverity" \in DOMAIN entry
                                    THEN entry.statusSeverity ELSE 10
                       IN  heads[k] = (IF sev \in SeverityKeys THEN SEVERITY(sev)[1] ELSE "(white)")
                                      \o " Victoria: "
                                      \o (IF "statusSeverityDescription" \in DOMAIN entry
                                          THEN entry.statusSeverityDescription ELSE "Unknown")

\* severity 9 (Minor Delays in the table) described as Good Service by the API
C11_Witness ==
    /\ FormatLineDone
    /\ Statuses(input) = <<[statusSeverity |-> 9, statusSeverityDescription |-> "Good Service"]>>
    /\ output[1] = "(yellow) Victoria: Good Service"

FormatArrivalDone == pc = "format_arrival" /\ output # <<>>

\* the time the claim describes for t seconds
ClaimedTime(t) ==
    IF 0 <= t /\ t <= 59 THEN "due"
    ELSE ToString(CHOOSE n \in (0 - MaxSeconds)..MaxSeconds : 60 * n <= t /\ t < 60 * n + 60)
         \o "min"

\* C15: format_arrival renders "due" exactly for 0 <= t <= 59 and floor(t / 60)
\* followed by "min" otherwise; no minus sign is rendered for t >= 0.
C15_DueOrWholeMinutes ==
    FormatArrivalDone =>
        LET t        == input.timeToStation
            platform == IF "platformName" \in DOMAIN input THEN input.platformName ELSE ""
            lead     == IF platform = "Westbound - Platform 1" THEN "    Westbound -> " ELSE "    "
            num      == IF platform = "Westbound - Platform 1" THEN "Platform 1" ELSE platform
            dest     == IF "destinationName" \in DOMAIN input THEN "Brixton" ELSE "Unknown"
        IN  /\ output[1] = lead \o dest \o " - " \o ClaimedTime(t) \o " (" \o num \o ")"
            /\ (IndexOf(output[1], " - due (") # 0) <=> (0 <= t /\ t <= 59)
            /\ t >= 0 => IndexOf(output[1], " - -") = 0

\* 65 seconds are rendered as 1min
C15_Witness ==
    /\ FormatArrivalDone
    /\ input.timeToStation = 65
    /\ output[1] = "    Unknown - 1min ()"

LabelDone == pc = "_busyness_label" /\ output # <<>>

LabelRank(label) ==
    CASE label = "(green) Quiet"     -> 1
      [] label = "(yellow) Moderate" -> 2
      [] label = "(orange) Busy"     -> 3
      [] label = "(red) Very busy"   -> 4

\* C16: _busyness_label gives Quiet below 0.2, Moderate from 0.2 and below 0.5,
\* Busy from 0.5 and below 0.8, Very busy from 0.8 on (percentages in
\* hundredths), and the label of a smaller percentage is never a higher band.
C16_HalfOpenBands ==
    LabelDone =>
        /\ \A i \in 1..2 :
              /\ output[i] \in {"(green) Quiet", "(yellow) Moderate", "(orange) Busy", "(red) Very busy"}
              /\ (output[i] = "(green) Quiet") <=> (input[i] < 20)
              /\ (output[i] = "(yellow) Moderate") <=> (20 <= input[i] /\ input[i] < 50)
              /\ (output[i] = "(orange) Busy") <=> (50 <= input[i] /\ input[i] < 80)
              /\ (output[i] = "(red) Very busy") <=> (input[i] >= 80)
        /\ input[1] <= input[2] => LabelRank(output[1]) <= LabelRank(output[2])

\* the limits 0.5 and 0.8 fall in the higher bands
C16_Witness ==
    /\ LabelDone
    /\ input = <<50, 80>>
    /\ output = <<"(orange) Busy", "(red) Very busy">>

(***************************************************************************)
(* The stress harness (src/tfl-status/stress_test.py): a script of test()  *)
(* calls over the globals passed, failed, rate_limited and errors, ended   *)
(* by the summary and sys.exit.  A step runs up to the next client.get.    *)
(***************************************************************************)
MaxTests == 2    \* test() calls in one run of the script

API_BASE == "https://api.tfl.gov.uk"

\* the arguments of two of the script's calls (label, path, expect_data)
TestCalls ==
    {[label |-> "All lines status",
      path |-> "/Line/Mode/tube,dlr,overground,elizabeth-line/Status", expect_data |-> TRUE],
     [label |-> "Nonexistent line", path |-> "/Line/fake-line/Status", expect_data |-> FALSE]}

\* what a 200 answer may carry: a list or an object of len members, a JSON
\* scalar, or a body that is not JSON
JsonBodies ==
    {[type |-> "list", len |-> 0], [type |-> "list", len |-> 1],
     [type |-> "dict", len |-> 0], [type |-> "null"], [type |-> "int", value |-> 0],
     [type |-> "invalid"]}

\* what client.get may come back with: httpx.HTTPError raised (written 0), a
\* status other than 200, or a 200 with a body
StressResponses ==
    {[status |-> c] : c \in {0, 300, 404, 429, 500}}
    \cup {[status |-> 200, body |-> b] : b \in JsonBodies}

\* resp.json() raises ValueError on a body that is not JSON
JsonRaises(r) == r.status = 200 /\ r.body.type = "invalid"

\* bool(data)
Truthy(data) ==
    CASE data.type \in {"list", "dict"} -> data.len > 0
      [] data.type = "null"             -> FALSE
      [] data.type = "int"              -> data.value # 0

\* has_data = bool(data) if isinstance(data, (list, dict)) else True
has_data(data) == IF data.type \in {"list", "dict"} THEN Truthy(data) ELSE TRUE

InitStress ==
    /\ pc = "script"
    /\ StressAtImport
    /\ args = Namespace("", FALSE, "", 0)
    /\ calls = <<>>
    /\ resp = NoResp
    /\ best = <<>>
    /\ stations = <<>>
    /\ stdout = <<>>
    /\ stderr = <<>>
    /\ exitcode = 0
    /\ input = ""
    /\ output = <<>>

\* the script calls test(label, "GET", path, expect_data=...): up to the
\* first client.get
test_call ==
    /\ pc = "script"
    /\ Len(tests) < MaxTests
    /\ \E t \in TestCalls :
          /\ args' = t
          /\ tests' = Append(tests, [label |-> t.label, url |-> API_BASE \o t.path,
                                     expect_data |-> t.expect_data, gets |-> <<NoResp>>])
    /\ resp' = NoResp
    /\ pc' = "get"
    /\ UNCHANGED <<calls, best, stations, stdout, stderr, exitcode, input, output,
                   passed, failed, rate_limited, errors>>

\* client.get comes back: it raises httpx.HTTPError or returns a response
client_get ==
    /\ pc \in {"get", "retry"}
    /\ \E r \in StressResponses :
          /\ resp' = r
          /\ tests' = [tests EXCEPT ![Len(tests)].gets = [@ EXCEPT ![Len(@)] = r]]
    /\ pc' = pc \o "_done"
    /\ UNCHANGED <<args, calls, best, stations, stdout, stderr, exitcode, input, output,
                   passed, failed, rate_limited, errors>>

\* mutant: the retry is not counted
test_retry_NotCounted ==
    /\ pc = "get_done"
    /\ resp.status = 429
    /\ stdout' = Append(stdout, "  (hourglass) " \o args.label \o ": 429 -- retrying in 10s...")
    /\ tests' = [tests EXCEPT ![Len(tests)].gets = Append(@, NoResp)]
    /\ resp' = NoResp
    /\ pc' = "retry"
    /\ UNCHANGED <<args, calls, best, stations, stderr, exitcode, input, output,
                   passed, failed, rate_limited, errors>>

\* test, the branch status == 429 of the first response: up to the second
\* client.get
test_retry ==
    /\ pc = "get_done"
    /\ resp.status = 429
    /\ stdout' = Append(stdout, "  (hourglass) " \o args.label \o ": 429 -- retrying in 10s...")
    /\ rate_limited' = rate_limited + 1
    /\ tests' = [tests EXCEPT ![Len(tests)].gets = Append(@, NoResp)]
    /\ resp' = NoResp
    /\ pc' = "retry"
    /\ UNCHANGED <<args, calls, best, stations, stderr, exitcode, input, output,
                   passed, failed, errors>>

\* print(...); passed += 1
Passes(printed) ==
    /\ stdout' = Append(stdout, printed)
    /\ passed' = passed + 1
    /\ UNCHANGED <<failed, errors>>

\* print(...); errors.append(...); failed += 1
Fails(printed, error) ==
    /\ stdout' = Append(stdout, printed)
    /\ errors' = Append(errors, error)
    /\ failed' = failed + 1
    /\ UNCHANGED passed

\* the response test() goes on to judge: the first one unless it is a 429,
\* and the second one whatever it is
Judged == pc \in {"get_done", "retry_done"} /\ (pc = "get_done" => resp.status # 429)

\* mutant: a disambiguation answer counts as passed
test_result_Lenient ==
    /\ Judged
    /\ ~JsonRaises(resp)
    /\ IF resp.status \in {200, 300}
       THEN Passes("  (check) " \o args.label \o ": " \o ToString(resp.status))
       ELSE Fails("  (cross) " \o args.label \o ": " \o ToString(resp.status),
                  args.label \o ": HTTP " \o ToString(resp.status) \o " -- " \o args.path)
    /\ pc' = "script"
    /\ UNCHANGED <<args, calls, resp, best, stations, stderr, exitcode, input, output,
                   rate_limited, tests>>

\* test, from the response to be judged to the return: the if/elif chain on
\* the status, and the except clause when client.get raised
test_result ==
    /\ Judged
    /\ ~JsonRaises(resp)
    /\ CASE resp.status = 0 ->
              Fails("  (cross) " \o args.label \o ": timed out", args.label \o ": timed out")
         [] resp.status = 200 ->
              IF args.expect_data /\ ~has_data(resp.body)
              THEN Fails("  (warning)  " \o args.label \o ": 200 but EMPTY response",
                         args.label \o ": empty response -- " \o args.path)
              ELSE Passes("  (check) " \o args.label \o ": 200")
         [] resp.status = 404 ->
              Fails("  (cross) " \o args.label \o ": 404 NOT FOUND",
                    args.label \o ": 404 -- " \o args.path)
         [] resp.status = 300 ->
              Fails("  (warning)  " \o args.label \o ": 300 DISAMBIGUATION",
                    args.label \o ": 300 disambiguation -- " \o args.path)
         [] OTHER ->
              Fails("  (cross) " \o args.label \o ": " \o ToString(resp.status),
                    args.label \o ": HTTP " \o ToString(resp.status) \o " -- " \o args.path)
    /\ pc' = "script"
    /\ UNCHANGED <<args, calls, resp, best, stations, stderr, exitcode, input, output,
                   rate_limited, tests>>

\* test, data = resp.json() on a body that is not JSON: the ValueError is not
\* an httpx.HTTPError, nothing catches it and the script ends with a traceback
test_json_raises ==
    /\ Judged
    /\ JsonRaises(resp)
    /\ stderr' = Append(stderr, "json.decoder.JSONDecodeError")
    /\ Exit(1)
    /\ UNCHANGED <<args, calls, resp, best, stations, stdout, input, output, stress>>

\* '=' * 60
Rule == "============================================================"

\* the lines of the failure list
Bullets(es) == [i \in 1..Len(es) |-> "    * " \o es[i]]

\* the summary: the counts, the failures, client.close() and
\* sys.exit(1 if failed else 0)
summary ==
    /\ pc = "script"
    /\ stdout' = stdout
                 \o <<"\n" \o Rule,
                      "  RESULTS: " \o ToString(passed) \o " passed, " \o ToString(failed)
                      \o " failed, " \o ToString(rate_limited) \o " rate-limited retries",
                      Rule>>
                 \o (IF errors # <<>> THEN <<"\n  Failures:\n">> \o Bullets(errors) ELSE <<>>)
                 \o <<"">>
    /\ Exit(IF failed # 0 THEN 1 ELSE 0)
    /\ UNCHANGED <<args, calls, resp, best, stations, stderr, input, output, stress>>

NextStress ==
    \/ test_call
    \/ client_get
    \/ test_retry
    \/ test_result
    \/ test_json_raises
    \/ summary

SpecStress == InitStress /\ [][NextStress]_vars

(***************************************************************************)
(* Claims about the stress harness (checked under SpecStress).             *)
(***************************************************************************)
\* an exception other than httpx.HTTPError has ended the script
StressCrashed == stderr # <<>>

\* no test() call is under way, and none has raised past its except clause
BetweenTests == pc \in {"script", "exited"} /\ ~StressCrashed

FirstWas429(t) == t.gets[1].status = 429

\* the last response of a test() call
FinalResponse(t) == t.gets[Len(t.gets)]

\* the data of a 200 answer is not an empty list and not an empty object
NonEmptyData(body) == ~(body.type \in {"list", "dict"} /\ body.len = 0)

\* what the claim requires of a call that is counted as passed
MayPass(t) ==
    /\ FinalResponse(t).status = 200
    /\ NonEmptyData(FinalResponse(t).body) \/ ~t.expect_data

\* the counters between test() calls and at the exit
StressCountersAgree ==
    /\ \A i \in 1..Len(tests) : Len(tests[i].gets) <= 2
    /\ BetweenTests =>
          /\ passed + failed = Len(tests)
          /\ Len(errors) = failed
          /\ rate_limited = Cardinality({i \in 1..Len(tests) : FirstWas429(tests[i])})
          /\ \A i \in 1..Len(tests) :
                Len(tests[i].gets) = IF FirstWas429(tests[i]) THEN 2 ELSE 1
          /\ pc = "exited" => exitcode = IF failed > 0 THEN 1 ELSE 0

\* a step that changes passed or failed is the end of a test() call and adds
\* exactly 1 to exactly one of them, to passed only for a call that may pass;
\* the end of a test() call is such a step
StressCountStep ==
    /\ (passed' # passed \/ failed' # failed) => (Judged /\ pc' = "script")
    /\ (Judged /\ pc' = "script") =>
          /\ \/ passed' = passed + 1 /\ failed' = failed
             \/ passed' = passed /\ failed' = failed + 1
          /\ passed' = passed + 1 => MayPass(tests[Len(tests)])

C22_JsonErrorLeavesCallUncounted ==
    /\ pc = "exited"
    /\ StressCrashed
    /\ Len(tests) = 1
    /\ passed = 0
    /\ failed = 0
    /\ exitcode = 1

=============================================================================
